---- MODULE Spec2Model ----
(***************************************************************************)
(* citygml::Polygon (src/sources/src/citygml/polygon.cpp): ring insertion, *)
(* one-shot finalisation into a vertex/index buffer (direct triangles or   *)
(* tessellation engine), and the per-theme appearance lookups.             *)
(*                                                                         *)
(* A 3D point is a pair <<ring id, k>>: the k-th distinct position of the  *)
(* ring that brought it in.  NewPt is a vertex the tessellation engine     *)
(* created itself.  A nullable pointer is a sequence of length 0 or 1.     *)
(***************************************************************************)
EXTENDS Integers, Sequences, FiniteSets, TLC

\* ---- bounds of the model
MaxRingLen == 1
MaxAdds == 2
MaxCoordLen == 2
MeshRingLen == 3
MeshAdds == 2

Themes == {"roof", "wall"}
Materials == {1, 2}
Textures == {11, 12}
NewPt == <<0, 0>>
GarbageCoord == 0 - 1

VARIABLES
    m_finished, m_negNormal, m_exteriorRing, m_interiorRings,
    m_vertices, m_indices,
    matTargets, texTargets,
    tessCalls,
    opName, opStatus, opResult, opDiags, opDedup, opTheme, opA, opB, opRing,
    numAdded, firstExterior, rejected, finishArgs

polygonVars == <<m_finished, m_negNormal, m_exteriorRing, m_interiorRings, m_vertices, m_indices>>
appearanceVars == <<matTargets, texTargets>>
opVars == <<opName, opStatus, opResult, opDiags, opDedup, opTheme, opA, opB, opRing>>
historyVars == <<numAdded, firstExterior, rejected, finishArgs>>
vars == <<polygonVars, appearanceVars, tessCalls, opVars, historyVars>>

\* ---- inputs: the rings a caller hands to addRing
DistinctVerts(id, len) == [i \in 1..len |-> <<id, i>>]
ClosedVerts(id, len) == [i \in 1..len |-> IF i = len THEN <<id, 1>> ELSE <<id, i>>]
RingVerts(id, maxLen) ==
    {DistinctVerts(id, len) : len \in 0..maxLen} \cup {ClosedVerts(id, len) : len \in 2..maxLen}
RingInputs(id, maxLen) ==
    {[id |-> id, exterior |-> e, verts |-> v] : e \in BOOLEAN, v \in RingVerts(id, maxLen)}

Slots == Themes \X BOOLEAN
NoTargets == [s \in Slots |-> <<>>]

\* ---- what the last call did (return value, exception, diagnostics, collaborator calls)
Op(name, status, result, diags, dedup, theme, a, b, ring) ==
    /\ opName' = name
    /\ opStatus' = status
    /\ opResult' = result
    /\ opDiags' = diags
    /\ opDedup' = dedup
    /\ opTheme' = theme
    /\ opA' = a
    /\ opB' = b
    /\ opRing' = ring

\* ---- LinearRing (collaborator)
DropAt(s, D) ==
    LET F[i \in 0..Len(s)] ==
            IF i = 0 THEN <<>> ELSE IF i \in D THEN F[i - 1] ELSE Append(F[i - 1], s[i])
    IN F[Len(s)]

DupIdx(v) ==
    {i \in 2..Len(v) : v[i] = v[i - 1]} \cup (IF Len(v) >= 2 /\ v[Len(v)] = v[1] THEN {Len(v)} ELSE {})

DedupTargets(tt, id, D) ==
    [s \in DOMAIN tt |->
        IF tt[s] = <<>> THEN <<>>
        ELSE << [tt[s][1] EXCEPT !.coords =
                    [r \in DOMAIN @ |-> IF r = id THEN DropAt(@[r], D) ELSE @[r]]] >>]

removeDuplicateVertices(ring) == [ring EXCEPT !.verts = DropAt(@, DupIdx(@))]

forgetVertices(ring) == [ring EXCEPT !.verts = <<>>]

RingNormal(ring) == <<1, ring.id>>

FlattenVerts(rings) ==
    LET F[i \in 0..Len(rings)] == IF i = 0 THEN <<>> ELSE F[i - 1] \o rings[i].verts
    IN F[Len(rings)]

\* ---- AppearanceTarget (base class): lookups of the target definitions
getMaterialTargetDefinitionForTheme(mt, theme, front) == mt[<<theme, front>>]
getTextureTargetDefinitionForTheme(tt, theme, front) == tt[<<theme, front>>]

\* ---- Polygon::getMaterialFor(theme, front), polygon.cpp 38-45
getMaterialFor2(mt, theme, front) ==
    LET targetDef == getMaterialTargetDefinitionForTheme(mt, theme, front)
    IN IF targetDef = <<>> THEN <<>> ELSE <<targetDef[1].app>>

getMaterialFor1_BackFirst(mt, theme) ==
    LET result == getMaterialFor2(mt, theme, FALSE)
    IN IF result # <<>> THEN result ELSE getMaterialFor2(mt, theme, TRUE)

\* ---- Polygon::getMaterialFor(theme), polygon.cpp 47-54
getMaterialFor1(mt, theme) ==
    LET result == getMaterialFor2(mt, theme, TRUE)
    IN IF result # <<>> THEN result ELSE getMaterialFor2(mt, theme, FALSE)

\* ---- Polygon::getTextureFor(theme, front), polygon.cpp 56-63
getTextureFor2(tt, theme, front) ==
    LET targetDef == getTextureTargetDefinitionForTheme(tt, theme, front)
    IN IF targetDef = <<>> THEN <<>> ELSE <<targetDef[1].app>>

\* ---- Polygon::getTextureFor(theme), polygon.cpp 65-72
getTextureFor1(tt, theme) ==
    LET result == getTextureFor2(tt, theme, TRUE)
    IN IF result # <<>> THEN result ELSE getTextureFor2(tt, theme, FALSE)

\* ---- Polygon::getTextureForTheme(theme, front), polygon.cpp 127-136
getTextureForTheme(tt, theme, front) ==
    LET targetDef == getTextureTargetDefinitionForTheme(tt, theme, front)
    IN IF targetDef = <<>> THEN <<>> ELSE <<targetDef[1].app>>

\* ---- Polygon::getTexCoordsForTheme, polygon.cpp 84-94
orderedRingIDs(ext, ints) == [i \in 1..Len(ext \o ints) |-> (ext \o ints)[i].id]

\* polygon.cpp 103-113: the coordinates of the rings that have some, in ring order
collectTexCoords(coords, ids) ==
    LET F[i \in 0..Len(ids)] ==
            IF i = 0 THEN <<>>
            ELSE IF ids[i] \in DOMAIN coords THEN F[i - 1] \o coords[ids[i]] ELSE F[i - 1]
    IN F[Len(ids)]

\* polygon.cpp 115-122: resize down, or push_back(back()) up to vertices.size().
\* back() of an empty vector is undefined: the call either dies or pushes
\* whatever it read.
reconcileTexCoords(texCoords, nVerts) ==
    IF Len(texCoords) > nVerts
    THEN {[status |-> "ok", result |-> SubSeq(texCoords, 1, nVerts)]}
    ELSE IF Len(texCoords) < nVerts
    THEN IF texCoords = <<>>
         THEN {[status |-> "crash", result |-> <<>>],
               [status |-> "ok", result |-> [i \in 1..nVerts |-> GarbageCoord]]}
         ELSE {[status |-> "ok",
                result |-> texCoords \o [i \in 1..(nVerts - Len(texCoords)) |-> texCoords[Len(texCoords)]]]}
    ELSE {[status |-> "ok", result |-> texCoords]}

\* polygon.cpp 74-125: the set of outcomes of one call
getTexCoordsForTheme(tt, ext, ints, verts, theme, front) ==
    LET targetDef == getTextureTargetDefinitionForTheme(tt, theme, front)
    IN IF targetDef = <<>>
       THEN {[status |-> "ok", result |-> <<>>, diags |-> {}]}
       ELSE LET ids == orderedRingIDs(ext, ints)
                coords == targetDef[1].coords
                d1 == IF Cardinality(DOMAIN coords) # Len(ids) THEN {"texcoords-ring-count"} ELSE {}
                d2 == IF \E i \in 1..Len(ids) : ids[i] \notin DOMAIN coords
                      THEN {"texcoords-missing"} ELSE {}
            IN {[status |-> r.status, result |-> r.result, diags |-> d1 \cup d2] :
                    r \in reconcileTexCoords(collectTexCoords(coords, ids), Len(verts))}

\* ---- Polygon::computeNormal, polygon.cpp 139-146
computeNormal(ext, neg) ==
    IF ext = <<>> THEN <<0, 0>>
    ELSE LET normal == RingNormal(ext[1])
         IN IF neg THEN <<0 - normal[1], normal[2]>> ELSE normal

\* ---- Polygon::removeDuplicateVerticesInRings, polygon.cpp 158-171
removeDuplicateVerticesInRings(ext, ints, tt) ==
    LET all == ext \o ints
        TT[i \in 0..Len(all)] ==
            IF i = 0 THEN tt ELSE DedupTargets(TT[i - 1], all[i].id, DupIdx(all[i].verts))
    IN [ext |-> [i \in 1..Len(ext) |-> removeDuplicateVertices(ext[i])],
        ints |-> [i \in 1..Len(ints) |-> removeDuplicateVertices(ints[i])],
        tt |-> TT[Len(all)],
        calls |-> Len(all)]

\* ---- Polygon::createSimpleIndices, polygon.cpp 187-193
\* indicesSize is 3 * (size_t n - 2) converted to int: the unsigned product
\* wraps modulo 2^64 and the conversion keeps the low 32 bits as a signed
\* value, which for the n of this model (n < 2^29) is the integer 3 * (n - 2),
\* negative for n < 2.
indicesSize_Paren(n) == 3 * n - 2

indicesSize_OffByOne(n) == 3 * (n - 1)

indicesSize(n) == 3 * (n - 2)

fillIndices_Fan(size) ==
    [q \in 1..size |-> IF (q - 1) % 3 = 0 THEN 0 ELSE ((q - 1) \div 3) + ((q - 1) % 3)]

\* resize(size) zero-fills; the loop writes the triple at p while p < size - 2
fillIndices(size) ==
    [q \in 1..size |->
        LET p == ((q - 1) \div 3) * 3
            i == p \div 3
            j == (q - 1) - p
        IN IF p < size - 2 THEN i + j ELSE 0]

\* polygon.cpp 173-194
createSimpleIndices(verts0, inds0, ext, ints) ==
    LET verts == verts0 \o FlattenVerts(ext \o ints)
        size == indicesSize(Len(verts))
    IN [vertices |-> verts,
        indices |-> IF size < 3 THEN inds0 ELSE fillIndices(size),
        ext |-> [i \in 1..Len(ext) |-> forgetVertices(ext[i])],
        ints |-> [i \in 1..Len(ints) |-> forgetVertices(ints[i])],
        calls |-> <<>>,
        diags |-> {}]

\* ---- Tesselator (collaborator)
TessInit(n, normal) == [call |-> "init", n |-> n, normal |-> normal, pts |-> <<>>]
TessAddContour(pts) == [call |-> "addContour", n |-> 0, normal |-> <<0, 0>>, pts |-> pts]
TessCompute == [call |-> "compute", n |-> 0, normal |-> <<0, 0>>, pts |-> <<>>]

EngineTriangles(m) ==
    IF m < 3 THEN <<>>
    ELSE [q \in 1..(3 * (m - 2)) |-> IF (q - 1) % 3 = 0 THEN 0 ELSE ((q - 1) \div 3) + ((q - 1) % 3)]

\* the buffers compute() may leave: the contour points in order, possibly one
\* created vertex more or one vertex less, triangulated (or, for the unchanged
\* points, without any triangle)
TessOutputs(contours) ==
    LET F[i \in 0..Len(contours)] == IF i = 0 THEN <<>> ELSE F[i - 1] \o contours[i]
        flat == F[Len(contours)]
        Vs == {flat, Append(flat, NewPt)} \cup (IF flat = <<>> THEN {} ELSE {SubSeq(flat, 1, Len(flat) - 1)})
    IN {[vertices |-> V, indices |-> EngineTriangles(Len(V))] : V \in Vs}
         \cup {[vertices |-> flat, indices |-> <<>>]}

\* ---- Polygon::createIndicesWithTesselation, polygon.cpp 196-232
tessContours(verts0, ext, ints) ==
    [i \in 1..Len(ext \o ints) |-> (ext \o ints)[i].verts] \o <<verts0>>

createIndicesWithTesselation(verts0, ext, ints, neg, out) ==
    LET normal == computeNormal(ext, neg)
        numVertices == Len(FlattenVerts(ext \o ints))
        contours == tessContours(verts0, ext, ints)
    IN [vertices |-> out.vertices,
        indices |-> out.indices,
        ext |-> [i \in 1..Len(ext) |-> forgetVertices(ext[i])],
        ints |-> [i \in 1..Len(ints) |-> forgetVertices(ints[i])],
        calls |-> <<TessInit(numVertices, normal)>>
                    \o [i \in 1..Len(contours) |-> TessAddContour(contours[i])]
                    \o <<TessCompute>>,
        diags |-> IF numVertices # Len(out.vertices) THEN {"tesselation-changed-count"} ELSE {}]

\* ---- Polygon::computeIndices, polygon.cpp 234-248: the possible results
computeIndices(tesselate, ext, ints, neg) ==
    LET cleared == <<>>
        rs == IF ~tesselate
              THEN {createSimpleIndices(cleared, cleared, ext, ints)}
              ELSE {createIndicesWithTesselation(cleared, ext, ints, neg, out) :
                        out \in TessOutputs(tessContours(cleared, ext, ints))}
    IN {[r EXCEPT !.diags = @ \cup (IF Len(r.vertices) < 3 THEN {"less-than-3-vertices"} ELSE {})] : r \in rs}

\* ---- Polygon::Polygon, polygon.cpp 16-20
InitPolygon ==
    /\ m_finished = FALSE
    /\ m_negNormal = FALSE
    /\ m_exteriorRing = <<>>
    /\ m_interiorRings = <<>>
    /\ m_vertices = <<>>
    /\ m_indices = <<>>
    /\ tessCalls = <<>>
    /\ opName = "Polygon"
    /\ opStatus = "ok"
    /\ opResult = <<>>
    /\ opDiags = {}
    /\ opDedup = 0
    /\ opTheme = ""
    /\ opA = FALSE
    /\ opB = FALSE
    /\ opRing = 0
    /\ numAdded = 0
    /\ firstExterior = 0
    /\ rejected = {}
    /\ finishArgs = <<>>

\* ---- Polygon::addRing, polygon.cpp 267-286
AddRingThrow(ring) ==
    /\ Op("addRing", "error", <<>>, {}, 0, "", ring.exterior, FALSE, ring.id)
    /\ UNCHANGED <<polygonVars, appearanceVars, tessCalls, historyVars>>

AddRingSilent(ring) ==
    /\ Op("addRing", "ok", <<>>, {}, 0, "", ring.exterior, FALSE, ring.id)
    /\ UNCHANGED <<polygonVars, appearanceVars, tessCalls, historyVars>>

AddRingReject(ring) ==
    /\ Op("addRing", "ok", <<>>, {"duplicate-exterior"}, 0, "", ring.exterior, FALSE, ring.id)
    /\ numAdded' = numAdded + 1
    /\ rejected' = rejected \cup {ring.id}
    /\ UNCHANGED <<polygonVars, appearanceVars, tessCalls, firstExterior, finishArgs>>

AddRingStore(ring) ==
    /\ IF ring.exterior
       THEN m_exteriorRing' = <<ring>> /\ UNCHANGED m_interiorRings
       ELSE m_interiorRings' = Append(m_interiorRings, ring) /\ UNCHANGED m_exteriorRing
    /\ Op("addRing", "ok", <<>>, {}, 0, "", ring.exterior, FALSE, ring.id)
    /\ numAdded' = numAdded + 1
    /\ firstExterior' = IF ring.exterior /\ firstExterior = 0 THEN ring.id ELSE firstExterior
    /\ UNCHANGED <<m_finished, m_negNormal, m_vertices, m_indices, appearanceVars, tessCalls,
                   rejected, finishArgs>>

addRing_NoThrow(ring) ==
    IF m_finished THEN AddRingSilent(ring)
    ELSE IF ring.exterior /\ m_exteriorRing # <<>> THEN AddRingReject(ring)
    ELSE AddRingStore(ring)

addRing_NoCheck(ring) ==
    IF ring.exterior /\ m_exteriorRing # <<>> THEN AddRingReject(ring)
    ELSE AddRingStore(ring)

addRing_Replace(ring) ==
    IF m_finished THEN AddRingThrow(ring)
    ELSE AddRingStore(ring)

addRing(ring) ==
    IF m_finished THEN AddRingThrow(ring)
    ELSE IF ring.exterior /\ m_exteriorRing # <<>> THEN AddRingReject(ring)
    ELSE AddRingStore(ring)

\* a caller adds at most maxAdds rings of at most maxLen points before finish
AddRingOf(maxAdds, maxLen) ==
    /\ m_finished \/ numAdded < maxAdds
    /\ \E ring \in RingInputs(numAdded + 1, maxLen) : addRing(ring)

AddRing == AddRingOf(MaxAdds, MaxRingLen)

\* the rings added before the finalising finish
MeshAddRing == ~m_finished /\ AddRingOf(MeshAdds, MeshRingLen)

\* ---- Polygon::finish, polygon.cpp 250-265
FinishNoop(doTesselate, optimize) ==
    /\ Op("finish", "ok", <<>>, {}, 0, "", doTesselate, optimize, 0)
    /\ UNCHANGED <<polygonVars, appearanceVars, tessCalls, historyVars>>

FinishBody(doTesselate, optimize) ==
    LET d == IF optimize
             THEN removeDuplicateVerticesInRings(m_exteriorRing, m_interiorRings, texTargets)
             ELSE [ext |-> m_exteriorRing, ints |-> m_interiorRings, tt |-> texTargets, calls |-> 0]
    IN \E r \in computeIndices(doTesselate, d.ext, d.ints, m_negNormal) :
          /\ m_finished' = TRUE
          /\ m_exteriorRing' = r.ext
          /\ m_interiorRings' = r.ints
          /\ m_vertices' = r.vertices
          /\ m_indices' = r.indices
          /\ texTargets' = d.tt
          /\ tessCalls' = tessCalls \o r.calls
          /\ Op("finish", "ok", <<>>, r.diags, d.calls, "", doTesselate, optimize, 0)
          /\ finishArgs' = IF finishArgs = <<>> THEN <<doTesselate, optimize>> ELSE finishArgs
          /\ UNCHANGED <<m_negNormal, matTargets, numAdded, firstExterior, rejected>>

finish_NoLatch(doTesselate, optimize) == FinishBody(doTesselate, optimize)

finish(doTesselate, optimize) ==
    IF m_finished THEN FinishNoop(doTesselate, optimize) ELSE FinishBody(doTesselate, optimize)

Finish == \E doTesselate \in BOOLEAN, optimize \in BOOLEAN : finish(doTesselate, optimize)

\* ---- Polygon::removeDuplicateVerticesInRings as a public call, polygon.cpp 158-171
RemoveDuplicateVerticesInRings ==
    LET d == removeDuplicateVerticesInRings(m_exteriorRing, m_interiorRings, texTargets)
    IN /\ m_exteriorRing' = d.ext
       /\ m_interiorRings' = d.ints
       /\ texTargets' = d.tt
       /\ Op("removeDuplicateVerticesInRings", "ok", <<>>, {}, d.calls, "", FALSE, FALSE, 0)
       /\ UNCHANGED <<m_finished, m_negNormal, m_vertices, m_indices, matTargets, tessCalls, historyVars>>

\* ---- Polygon::setNegNormal, polygon.cpp 153-156
SetNegNormal ==
    \E negNormal \in BOOLEAN :
        /\ m_negNormal' = negNormal
        /\ Op("setNegNormal", "ok", <<>>, {}, 0, "", negNormal, FALSE, 0)
        /\ UNCHANGED <<m_finished, m_exteriorRing, m_interiorRings, m_vertices, m_indices,
                       appearanceVars, tessCalls, historyVars>>

\* ---- Polygon::computeNormal as a public call, polygon.cpp 139-146
ComputeNormal ==
    /\ Op("computeNormal", "ok", computeNormal(m_exteriorRing, m_negNormal), {}, 0, "", FALSE, FALSE, 0)
    /\ UNCHANGED <<polygonVars, appearanceVars, tessCalls, historyVars>>

\* ---- Polygon::getVertices (non-const), polygon.cpp 27-30: hands out a reference
GetVertices ==
    /\ Op("getVertices", "ok", <<>>, {}, 0, "", FALSE, FALSE, 0)
    /\ UNCHANGED <<polygonVars, appearanceVars, tessCalls, historyVars>>

\* ---- the const lookups
Query(name, theme, front, result) ==
    /\ Op(name, "ok", result, {}, 0, theme, front, FALSE, 0)
    /\ UNCHANGED <<polygonVars, appearanceVars, tessCalls, historyVars>>

GetMaterialFor2 ==
    \E theme \in Themes, front \in BOOLEAN :
        Query("getMaterialFor2", theme, front, getMaterialFor2(matTargets, theme, front))

GetMaterialFor1 ==
    \E theme \in Themes : Query("getMaterialFor1", theme, FALSE, getMaterialFor1(matTargets, theme))

GetTextureFor2 ==
    \E theme \in Themes, front \in BOOLEAN :
        Query("getTextureFor2", theme, front, getTextureFor2(texTargets, theme, front))

GetTextureFor1 ==
    \E theme \in Themes : Query("getTextureFor1", theme, FALSE, getTextureFor1(texTargets, theme))

GetTextureForTheme ==
    \E theme \in Themes, front \in BOOLEAN :
        Query("getTextureForTheme", theme, front, getTextureForTheme(texTargets, theme, front))

GetTexCoordsForTheme ==
    \E theme \in Themes, front \in BOOLEAN :
        \E r \in getTexCoordsForTheme(texTargets, m_exteriorRing, m_interiorRings, m_vertices, theme, front) :
            /\ Op("getTexCoordsForTheme", r.status, r.result, r.diags, 0, theme, front, FALSE, 0)
            /\ UNCHANGED <<polygonVars, appearanceVars, tessCalls, historyVars>>

\* ---- the polygon's life: rings, finish, and every public call
MatTarget(m) == <<[app |-> m]>>
TexTarget(t, coords) == <<[app |-> t, coords |-> coords]>>
CoordSeq(id, len) == [i \in 1..len |-> 10 * id + i]

Init ==
    /\ InitPolygon
    /\ matTargets = [NoTargets EXCEPT ![<<"roof", FALSE>>] = MatTarget(2)]
    /\ texTargets = [NoTargets EXCEPT ![<<"roof", TRUE>>] = TexTarget(11, [r \in {1} |-> CoordSeq(1, 2)])]

Next ==
    \/ AddRing
    \/ Finish
    \/ RemoveDuplicateVerticesInRings
    \/ SetNegNormal
    \/ ComputeNormal
    \/ GetVertices
    \/ GetMaterialFor2
    \/ GetMaterialFor1
    \/ GetTextureFor2
    \/ GetTextureFor1
    \/ GetTextureForTheme
    \/ GetTexCoordsForTheme

Spec == Init /\ [][Next]_vars

\* ---- texture coordinates: every shape of per-ring coordinate data
CoordMaps ==
    UNION {[R -> {CoordSeq(1, len) : len \in 0..MaxCoordLen}] : R \in SUBSET {1, 2}}

InitTex ==
    /\ InitPolygon
    /\ matTargets = NoTargets
    /\ \E s \in {<<"roof", TRUE>>, <<"wall", FALSE>>}, coords \in CoordMaps :
          texTargets = [NoTargets EXCEPT ![s] = TexTarget(11, coords)]

NextTex ==
    \/ AddRing
    \/ Finish
    \/ GetTexCoordsForTheme

SpecTex == InitTex /\ [][NextTex]_vars

\* ---- mesh construction: larger ring sets, no queries
NextMesh ==
    \/ MeshAddRing
    \/ Finish
    \/ RemoveDuplicateVerticesInRings
    \/ SetNegNormal

SpecMesh == Init /\ [][NextMesh]_vars

\* ---- the lookups over every binding of materials and textures
InitLookup ==
    /\ InitPolygon
    /\ matTargets \in [Slots -> {<<>>} \cup {MatTarget(m) : m \in Materials}]
    /\ texTargets \in [Slots -> {<<>>} \cup {TexTarget(t, <<>>) : t \in Textures}]

NextLookup ==
    \/ GetMaterialFor2
    \/ GetMaterialFor1
    \/ GetTextureFor2
    \/ GetTextureFor1

SpecLookup == InitLookup /\ [][NextLookup]_vars

\* ---------------------------------------------------------------------------
\* Properties
\* ---------------------------------------------------------------------------

\* C1: a call to finish on a polygon that is already finished, whatever its
\* tessellate/optimize arguments, leaves vertices, indices, the rings and the
\* finished flag as they were and calls neither the rings' duplicate-vertex
\* removal nor the tessellation engine.
C1_FinishIdempotent ==
    [][(m_finished /\ opName' = "finish") =>
          /\ UNCHANGED <<m_finished, m_exteriorRing, m_interiorRings, m_vertices, m_indices>>
          /\ opDedup' = 0
          /\ tessCalls' = tessCalls]_vars

C1_Witness ==
    /\ m_finished
    /\ opName = "finish"
    /\ finishArgs = <<FALSE, FALSE>>
    /\ opA
    /\ opB
    /\ m_vertices # <<>>
    /\ m_exteriorRing # <<>>

\* C2: addRing on a finished polygon raises the error, for an exterior and for
\* an interior ring, and leaves vertices, indices, both ring slots and the
\* finished flag unchanged.
C2_AddRingAfterFinishFails ==
    [][(m_finished /\ opName' = "addRing") =>
          /\ opStatus' = "error"
          /\ UNCHANGED <<m_finished, m_exteriorRing, m_interiorRings, m_vertices, m_indices>>]_vars

C2_Witness ==
    /\ m_finished
    /\ opName = "addRing"
    /\ opStatus = "error"
    /\ opA
    /\ m_exteriorRing = <<>>
    /\ m_vertices # <<>>

\* C3: once the polygon is finished no public call changes vertices, indices
\* or the rings, and finished stays true.
C3_FinishedFrozen ==
    [][m_finished =>
          /\ m_finished'
          /\ UNCHANGED <<m_vertices, m_indices, m_exteriorRing, m_interiorRings>>]_vars

C3_Witness ==
    /\ m_finished
    /\ opName = "removeDuplicateVerticesInRings"
    /\ opDedup = 2
    /\ m_vertices # <<>>

\* C4: the index buffer always holds a whole number of triangles.
C4_IndicesMultipleOf3 == Len(m_indices) % 3 = 0

C4_Witness ==
    /\ m_finished
    /\ finishArgs[1] = FALSE
    /\ Len(m_indices) >= 6

\* C5: after finish, texCoordsForTheme for a (theme, orientation) with a bound
\* texture target returns normally with exactly one coordinate per vertex.
C5_TexCoordsLength ==
    (m_finished /\ opName = "getTexCoordsForTheme" /\ texTargets[<<opTheme, opA>>] # <<>>) =>
        (opStatus = "ok" /\ Len(opResult) = Len(m_vertices))

\* C6: the finish that tessellates calls the engine with init, then one
\* addContour per ring (exterior first, interior rings in insertion order) and
\* no other contour, then compute.
C6_EngineCallSequence ==
    [][(~m_finished /\ m_finished' /\ opA') =>
          LET rings == IF opB'
                       THEN [i \in 1..Len(m_exteriorRing \o m_interiorRings) |->
                                removeDuplicateVertices((m_exteriorRing \o m_interiorRings)[i])]
                       ELSE m_exteriorRing \o m_interiorRings
              calls == SubSeq(tessCalls', Len(tessCalls) + 1, Len(tessCalls'))
          IN /\ Len(calls) = Len(rings) + 2
             /\ calls[1].call = "init"
             /\ \A i \in 1..Len(rings) : calls[i + 1] = TessAddContour(rings[i].verts)
             /\ calls[Len(calls)] = TessCompute]_vars

\* C7: the finish that does not tessellate leaves, for n vertices (the rings'
\* vertices, exterior first), no index when n < 3 and otherwise the 3*(n-2)
\* indices whose k-th triple is (k, k+1, k+2).
C7_SimpleTriangles ==
    [][(~m_finished /\ m_finished' /\ ~opA') =>
          LET n == Len(m_vertices')
              all == m_exteriorRing \o m_interiorRings
              total == Len(FlattenVerts(all))
          IN /\ ~opB' => (n = total /\ m_vertices' = FlattenVerts(all))
             /\ n <= total
             /\ n < 3 => m_indices' = <<>>
             /\ n >= 3 =>
                   /\ Len(m_indices') = 3 * (n - 2)
                   /\ \A k \in 0..(n - 3) :
                         /\ m_indices'[3 * k + 1] = k
                         /\ m_indices'[3 * k + 2] = k + 1
                         /\ m_indices'[3 * k + 3] = k + 2
             /\ n = 5 => m_indices' = <<0, 1, 2, 1, 2, 3, 2, 3, 4>>]_vars

C7_Witness ==
    /\ m_finished
    /\ finishArgs[1] = FALSE
    /\ Len(m_vertices) = 5
    /\ m_indices = <<0, 1, 2, 1, 2, 3, 2, 3, 4>>

\* C8: the exterior slot holds the first exterior ring ever added; a later
\* exterior ring is dropped without an error and without touching the rings,
\* and the mesh is built from the first exterior ring and holds no vertex of a
\* dropped ring.
C8_FirstExteriorKept ==
    [][/\ m_exteriorRing' # <<>> => m_exteriorRing'[1].id = firstExterior'
       /\ firstExterior' # 0 => m_exteriorRing' # <<>>
       /\ (opName' = "addRing" /\ ~m_finished /\ opA' /\ m_exteriorRing # <<>>) =>
             (opStatus' = "ok" /\ UNCHANGED <<m_exteriorRing, m_interiorRings>>)
       /\ \A i \in 1..Len(m_vertices') : m_vertices'[i][1] \notin rejected'
       /\ (~m_finished /\ m_finished' /\ m_exteriorRing # <<>>) =>
             LET kept == IF opB' THEN removeDuplicateVertices(m_exteriorRing[1]).verts
                         ELSE m_exteriorRing[1].verts
             IN IF opA'
                THEN tessCalls'[Len(tessCalls) + 2] = TessAddContour(kept)
                ELSE SubSeq(m_vertices', 1, Len(kept)) = kept]_vars

C8_Witness ==
    /\ m_finished
    /\ rejected # {}
    /\ firstExterior = 1
    /\ finishArgs[1] = FALSE
    /\ Len(m_vertices) = 1

\* C9: a finish that leaves fewer than 3 vertices returns normally with the
\* polygon finished, the fewer-than-3-vertices warning logged and no index.
C9_DegenerateFinish ==
    [][(~m_finished /\ m_finished' /\ Len(m_vertices') < 3) =>
          /\ opName' = "finish"
          /\ opStatus' = "ok"
          /\ "less-than-3-vertices" \in opDiags'
          /\ m_indices' = <<>>]_vars

C9_Witness ==
    /\ m_finished
    /\ opName = "finish"
    /\ ~opA
    /\ Len(m_vertices) = 2
    /\ "less-than-3-vertices" \in opDiags
    /\ m_indices = <<>>

\* C10: the lookups without orientation return the front binding when there
\* is one, otherwise the back binding, otherwise nothing; the lookup with
\* front = true returns nothing when only the back is bound.
C10_OrientationFallback ==
    LET front(t) == t[<<opTheme, TRUE>>]
        back(t) == t[<<opTheme, FALSE>>]
        expected(t) == IF front(t) # <<>> THEN <<front(t)[1].app>>
                       ELSE IF back(t) # <<>> THEN <<back(t)[1].app>>
                       ELSE <<>>
    IN /\ opName = "getMaterialFor1" => opResult = expected(matTargets)
       /\ opName = "getTextureFor1" => opResult = expected(texTargets)
       /\ (opName = "getMaterialFor2" /\ opA /\ front(matTargets) = <<>>) => opResult = <<>>

C10_Witness ==
    /\ opName = "getMaterialFor1"
    /\ matTargets[<<opTheme, TRUE>>] = <<>>
    /\ matTargets[<<opTheme, FALSE>>] = MatTarget(2)
    /\ opResult = <<2>>

====
